---- MODULE Spec2Model ----
(***************************************************************************)
(* Model of the pagination cursor of wallhalla (src/wallhalla/wallhalla.py *)
(* class Wallhalla) together with the part of WHClient it depends on.      *)
(*                                                                         *)
(* A wallpaper is represented by its 'id' alone: the cursor reads no other *)
(* field before the commit, and 'path' is only handed to the download.     *)
(* An id is a Python str; it is modelled as the sequence of its digits so  *)
(* that the comparison the code performs (str < str, lexicographic) is     *)
(* computed and not assumed: "10" is <<1, 0>> and sorts before "2".        *)
(***************************************************************************)
EXTENDS Integers, Sequences, FiniteSets, TLC

(***************************************************************************)
(* Bounds of the model.                                                    *)
(***************************************************************************)
\* largest number of wallpapers in a remote collection that is edited
MaxN == 2
\* largest number of wallpapers in a remote collection that stays as it is
MaxStaticN == 3
\* largest per_page the remote reports
MaxP == 2
\* the clock stops advancing here
MaxTime == 170
\* how many times the remote collection may change during a run
MaxChanges == 1
\* how many successful calls of a run over a static remote are counted
MaxCalls == 7

\* time.time() when the cursor is constructed (any value well above fetch_freq)
StartTime == 100
\* config.fetch_freq: 'cache.fetch.sec' of the default configuration
fetch_freq == 60
\* the seconds that may pass between two steps of the driver
TickSteps == {30, 40}

\* the ids of a remote collection that is edited: "10", "2"
IDs == {<<1, 0>>, <<2>>}
\* the ids of a remote collection that stays as it is: "1", "10", "2", "3"
StaticIDs == {<<1>>, <<1, 0>>, <<2>>, <<3>>}
\* self.__current_wallpaper_id = '0'
Sentinel == <<0>>
\* None, the default of next(filter(...), None)
NoItem == <<>>

VARIABLES
    \* ---- the fields of Wallhalla
    wallpapers,            \* self.__wallpapers: ids of the loaded page
    last_fetched_at,       \* self.__last_fetched_at
    current_wallpaper_id,  \* self.__current_wallpaper_id
    collection_size,       \* self.__collection_size
    page_size,             \* self.__page_size
    page_index,            \* self.__page_index
    page_entry_index,      \* self.__page_entry_index
    wallpaper_index,       \* self.__wallpaper_index
    \* ---- the environment
    now,                   \* time.time()
    remote,                \* the collection as the server holds it
    changes,               \* how often the remote has changed so far
    \* ---- history (never read by the program)
    k,                     \* successful set_next calls since construction while
                           \* the remote is static and no call failed, else -1
    stale_seen,            \* a staleness refetch happened in such a run
    last                   \* what the call of set_next that just returned did

vars == <<wallpapers, last_fetched_at, current_wallpaper_id, collection_size,
          page_size, page_index, page_entry_index, wallpaper_index,
          now, remote, changes, k, stale_seen, last>>

(***************************************************************************)
(* Pure helpers.                                                           *)
(***************************************************************************)
Min(a, b) == IF a < b THEN a ELSE b

RECURSIVE StrLess(_, _)
\* Python's str.__lt__: lexicographic, a proper prefix is smaller
StrLess(a, b) ==
    IF a = <<>> THEN b # <<>>
    ELSE IF b = <<>> THEN FALSE
    ELSE IF Head(a) = Head(b) THEN StrLess(Tail(a), Tail(b))
    ELSE Head(a) < Head(b)

RECURSIVE Insert(_, _)
\* x placed before the first element that is not smaller than it
Insert(x, s) ==
    IF s = <<>> THEN <<x>>
    ELSE IF ~StrLess(Head(s), x) THEN <<x>> \o s
    ELSE <<Head(s)>> \o Insert(x, Tail(s))

RECURSIVE SortedById(_)
\* sorted(data, key=lambda x: x['id']): ascending and stable
SortedById(s) ==
    IF s = <<>> THEN <<>> ELSE Insert(Head(s), SortedById(Tail(s)))

RECURSIVE FirstGreater(_, _)
\* next(filter(lambda w: w['id'] > cur, ws), None)
FirstGreater(ws, cur) ==
    IF ws = <<>> THEN NoItem
    ELSE IF StrLess(cur, Head(ws)) THEN Head(ws)
    ELSE FirstGreater(Tail(ws), cur)

Range(s) == {s[i] : i \in 1..Len(s)}

(***************************************************************************)
(* The remote: a collection (ids in the server's own order) cut into pages *)
(* of per_page entries.                                                    *)
(***************************************************************************)
RECURSIVE SeqsUpTo(_, _)
\* the sequences of distinct members of ids of length <= n
SeqsUpTo(ids, n) ==
    IF n = 0 THEN {<<>>}
    ELSE LET shorter == SeqsUpTo(ids, n - 1)
         IN shorter \cup
            {Append(s, x) : s \in {t \in shorter : Len(t) = n - 1},
                            x \in ids}

Distinct(s) == Cardinality(Range(s)) = Len(s)

\* A remote account: the wallpapers of the configured collection in the
\* order the remote lists them, the per_page of the account, and whether the
\* account has a collection with the configured label at all.
RemotesOver(ids, n) ==
    {[coll |-> c, per_page |-> p, labelled |-> TRUE] :
        c \in {s \in SeqsUpTo(ids, n) : Distinct(s)}, p \in 1..MaxP}

Remotes == RemotesOver(IDs, MaxN)

StaticRemotes == RemotesOver(StaticIDs, MaxStaticN)

\* WHClient.wallpapers(page): the JSON of /collections/<login>/<id>?page=<page>.
\* A page below 1 is answered like page 1, a page past the end is empty.
ClientWallpapers(rem, page) ==
    LET p == IF page < 1 THEN 1 ELSE page
        n == Len(rem.coll)
        from == (p - 1) * rem.per_page + 1
        to == Min(p * rem.per_page, n)
    IN [data |-> IF from > n THEN <<>> ELSE SubSeq(rem.coll, from, to),
        per_page |-> rem.per_page,
        total |-> n]

(***************************************************************************)
(* The cursor as a record, and the methods of Wallhalla as operators on it.*)
(***************************************************************************)
Cursor ==
    [wallpapers |-> wallpapers,
     last_fetched_at |-> last_fetched_at,
     current_wallpaper_id |-> current_wallpaper_id,
     collection_size |-> collection_size,
     page_size |-> page_size,
     page_index |-> page_index,
     page_entry_index |-> page_entry_index,
     wallpaper_index |-> wallpaper_index]

\* Wallhalla.__init__
InitCursor ==
    [wallpapers |-> <<>>,
     last_fetched_at |-> 0,
     current_wallpaper_id |-> Sentinel,
     collection_size |-> 0,
     page_size |-> 0,
     page_index |-> 0,
     page_entry_index |-> 0,
     wallpaper_index |-> 0]

\* mutant: the end of the collection tested one entry late
is_eoc_reached_late(s) == s.wallpaper_index > s.collection_size

\* Wallhalla.__is_eoc_reached
is_eoc_reached(s) == s.wallpaper_index > s.collection_size - 1

\* mutant: the end of the page tested one entry late
is_eop_reached_late(s) == s.page_entry_index > s.page_size

\* Wallhalla.__is_eop_reached
is_eop_reached(s) == s.page_entry_index >= s.page_size

\* mutant: the cache expires when the interval has just elapsed
is_fetch_cache_expired_ge(s, t) == t - s.last_fetched_at >= fetch_freq

\* Wallhalla.__is_fetch_cache_expired
is_fetch_cache_expired(s, t) == t - s.last_fetched_at > fetch_freq

\* mutant: the fetch also restarts the position in the page
fetch_ok_resets_entry(s, rem, t) ==
    LET walls_meta == ClientWallpapers(rem, s.page_index)
    IN [s EXCEPT !.wallpapers = SortedById(walls_meta.data),
                 !.page_size = walls_meta.per_page,
                 !.collection_size = walls_meta.total,
                 !.last_fetched_at = t,
                 !.page_entry_index = 0]

\* mutant: the page is kept in the order the remote returned it
fetch_ok_unsorted(s, rem, t) ==
    LET walls_meta == ClientWallpapers(rem, s.page_index)
    IN [s EXCEPT !.wallpapers = walls_meta.data,
                 !.page_size = walls_meta.per_page,
                 !.collection_size = walls_meta.total,
                 !.last_fetched_at = t]

\* Wallhalla.__fetch when the client answers: the four assignments
fetch_ok(s, rem, t) ==
    LET walls_meta == ClientWallpapers(rem, s.page_index)
    IN [s EXCEPT !.wallpapers = SortedById(walls_meta.data),
                 !.page_size = walls_meta.per_page,
                 !.collection_size = walls_meta.total,
                 !.last_fetched_at = t]

\* mutant: the page is requested although no collection has the label
fetch_without_id(r, rem, t, ok) ==
    [st |-> IF ok /\ rem.labelled THEN fetch_ok(r.st, rem, t) ELSE r.st,
     fetched |-> Append(r.fetched, r.st.page_index),
     paged |-> Append(r.paged, r.st.page_index),
     error |-> ~(ok /\ rem.labelled)]

\* Wallhalla.__fetch: one call of WHClient.wallpapers for s.page_index; when
\* the client raises, the exception leaves before any assignment.  The client
\* raises RuntimeError when a response is not ok (ok = FALSE), and TypeError
\* when no collection has the configured label: next(filter(...), None) is
\* None and collection["id"] fails while the path of the page request is
\* built, so that request is not sent.
\* r is the result so far: [st, fetched, paged, error]; fetched are the pages
\* WHClient.wallpapers was called for, paged the pages whose request was
\* built with the id of a collection.
fetch(r, rem, t, ok) ==
    [st |-> IF ok /\ rem.labelled THEN fetch_ok(r.st, rem, t) ELSE r.st,
     fetched |-> Append(r.fetched, r.st.page_index),
     paged |-> IF rem.labelled THEN Append(r.paged, r.st.page_index)
               ELSE r.paged,
     error |-> ~(ok /\ rem.labelled)]

\* mutant: the end-of-collection branch restarts at page 0
reset_eoc_page_zero(s) ==
    [s EXCEPT !.page_entry_index = 0,
              !.page_index = 0,
              !.current_wallpaper_id = Sentinel,
              !.wallpaper_index = 0]

\* mutant: the end-of-collection branch forgets to reset wallpaper_index
reset_eoc_keeps_index(s) ==
    [s EXCEPT !.page_entry_index = 0,
              !.page_index = 1,
              !.current_wallpaper_id = Sentinel]

\* the assignments of the end-of-collection branch that precede its fetch
reset_eoc(s) ==
    [s EXCEPT !.page_entry_index = 0,
              !.page_index = 1,
              !.current_wallpaper_id = Sentinel,
              !.wallpaper_index = 0]

\* mutant: the end-of-page branch keeps the id served last
reset_eop_keeps_id(s) ==
    [s EXCEPT !.page_index = s.page_index + 1,
              !.page_entry_index = 0]

\* the assignments of the end-of-page branch that precede its fetch
reset_eop(s) ==
    [s EXCEPT !.page_index = s.page_index + 1,
              !.page_entry_index = 0,
              !.current_wallpaper_id = Sentinel]

\* mutant: three separate ifs on the conditions at entry instead of elif
refetch_all_branches(s, rem, t, ok) ==
    LET r0 == [st |-> s, fetched |-> <<>>, paged |-> <<>>, error |-> FALSE]
        r1 == IF is_eoc_reached(s)
              THEN fetch([r0 EXCEPT !.st = reset_eoc(s)], rem, t, ok)
              ELSE r0
        r2 == IF ~r1.error /\ is_eop_reached(s)
              THEN fetch([r1 EXCEPT !.st = reset_eop(r1.st)], rem, t, ok)
              ELSE r1
    IN IF ~r2.error /\ is_fetch_cache_expired(s, t)
       THEN fetch(r2, rem, t, ok)
       ELSE r2

\* mutant: the staleness branch restarts the scan of the page like the others
refetch_stale_restarts(s, rem, t, ok) ==
    LET r0 == [st |-> s, fetched |-> <<>>, paged |-> <<>>, error |-> FALSE]
    IN IF is_eoc_reached(s)
           THEN fetch([r0 EXCEPT !.st = reset_eoc(s)], rem, t, ok)
       ELSE IF is_eop_reached(s)
           THEN fetch([r0 EXCEPT !.st = reset_eop(s)], rem, t, ok)
       ELSE IF is_fetch_cache_expired(s, t)
           THEN fetch([r0 EXCEPT !.st.current_wallpaper_id = Sentinel],
                      rem, t, ok)
       ELSE r0

\* mutant: a call that meets none of the three conditions fetches as well
refetch_every_call(s, rem, t, ok) ==
    LET r0 == [st |-> s, fetched |-> <<>>, paged |-> <<>>, error |-> FALSE]
    IN IF is_eoc_reached(s)
           THEN fetch([r0 EXCEPT !.st = reset_eoc(s)], rem, t, ok)
       ELSE IF is_eop_reached(s)
           THEN fetch([r0 EXCEPT !.st = reset_eop(s)], rem, t, ok)
       ELSE fetch(r0, rem, t, ok)

\* mutant: the end of the page is tested before the end of the collection
refetch_eop_first(s, rem, t, ok) ==
    LET r0 == [st |-> s, fetched |-> <<>>, paged |-> <<>>, error |-> FALSE]
    IN IF is_eop_reached(s)
           THEN fetch([r0 EXCEPT !.st = reset_eop(s)], rem, t, ok)
       ELSE IF is_eoc_reached(s)
           THEN fetch([r0 EXCEPT !.st = reset_eoc(s)], rem, t, ok)
       ELSE IF is_fetch_cache_expired(s, t)
           THEN fetch(r0, rem, t, ok)
       ELSE r0

\* Wallhalla.__refetch: if / elif / elif
refetch(s, rem, t, ok) ==
    LET r0 == [st |-> s, fetched |-> <<>>, paged |-> <<>>, error |-> FALSE]
    IN IF is_eoc_reached(s)
           THEN fetch([r0 EXCEPT !.st = reset_eoc(s)], rem, t, ok)
       ELSE IF is_eop_reached(s)
           THEN fetch([r0 EXCEPT !.st = reset_eop(s)], rem, t, ok)
       ELSE IF is_fetch_cache_expired(s, t)
           THEN fetch(r0, rem, t, ok)
       ELSE r0

\* mutant: the first wallpaper of the page stands in for a missing candidate
select_or_first(s) ==
    LET c == FirstGreater(s.wallpapers, s.current_wallpaper_id)
    IN IF c = NoItem /\ s.wallpapers # <<>> THEN Head(s.wallpapers) ELSE c

\* the candidate of set_next (line 156)
select(s) == FirstGreater(s.wallpapers, s.current_wallpaper_id)

\* the commit of set_next (lines 157 to 159)
commit(s, w) ==
    [s EXCEPT !.current_wallpaper_id = w,
              !.page_entry_index = s.page_entry_index + 1,
              !.wallpaper_index = s.wallpaper_index + 1]

\* Wallhalla.set_next up to the commit, as a function of the state at entry:
\* [st, sel, fetched, paged, outcome, item]
run_set_next(s, rem, t, ok) ==
    LET r == refetch(s, rem, t, ok)
        cand == IF r.error THEN NoItem ELSE select(r.st)
    IN [st |-> IF cand = NoItem THEN r.st ELSE commit(r.st, cand),
        sel |-> r.st,
        fetched |-> r.fetched,
        paged |-> r.paged,
        outcome |-> IF r.error THEN "fetch_error"
                    ELSE IF cand = NoItem THEN "no_candidate"
                    ELSE "served",
        item |-> cand]

\* mutant: the cursor is committed only once the wallpaper is delivered
deliver_then_commit(r, dl) == IF dl THEN r.st ELSE r.sel

\* Wallhalla.set_next after the commit (lines 160 to 164): the cursor at
\* exit.  download_wallpaper and set_wallpaper read the served wallpaper and
\* assign no field of the cursor, whether they return (dl) or raise.
deliver(r, dl) == r.st

(***************************************************************************)
(* The state machine.                                                      *)
(***************************************************************************)
NoCall ==
    [called |-> FALSE, pre |-> InitCursor, sel |-> InitCursor,
     fetched |-> <<>>, paged |-> <<>>, outcome |-> "none", item |-> NoItem,
     delivered |-> FALSE, k |-> -1, stale_seen |-> FALSE]

InitWith(rems) ==
    /\ wallpapers = InitCursor.wallpapers
    /\ last_fetched_at = InitCursor.last_fetched_at
    /\ current_wallpaper_id = InitCursor.current_wallpaper_id
    /\ collection_size = InitCursor.collection_size
    /\ page_size = InitCursor.page_size
    /\ page_index = InitCursor.page_index
    /\ page_entry_index = InitCursor.page_entry_index
    /\ wallpaper_index = InitCursor.wallpaper_index
    /\ now = StartTime
    /\ remote \in rems
    /\ changes = 0
    /\ k = 0
    /\ stale_seen = FALSE
    /\ last = NoCall

Init == InitWith(Remotes)

\* One call of set_next by the scheduler. ok: the client answers the fetch
\* (if one is issued); dl: download_wallpaper and set_wallpaper succeed
\* (they run only after the commit, so dl is fixed when nothing is served).
set_next(ok, dl) ==
    LET s == Cursor
        r == run_set_next(s, remote, now, ok)
        x == deliver(r, dl)
        stale == r.fetched # <<>> /\ ~is_eoc_reached(s) /\ ~is_eop_reached(s)
        k1 == IF k < 0 \/ r.outcome # "served" \/ k + 1 > MaxCalls
              THEN -1 ELSE k + 1
    IN /\ dl \/ r.outcome = "served"
       /\ wallpapers' = x.wallpapers
       /\ last_fetched_at' = x.last_fetched_at
       /\ current_wallpaper_id' = x.current_wallpaper_id
       /\ collection_size' = x.collection_size
       /\ page_size' = x.page_size
       /\ page_index' = x.page_index
       /\ page_entry_index' = x.page_entry_index
       /\ wallpaper_index' = x.wallpaper_index
       /\ k' = k1
       /\ stale_seen' = (k1 >= 0 /\ (stale_seen \/ stale))
       /\ last' = [called |-> TRUE, pre |-> s, sel |-> r.sel,
                   fetched |-> r.fetched, paged |-> r.paged,
                   outcome |-> r.outcome, item |-> r.item,
                   delivered |-> (r.outcome = "served" /\ dl),
                   k |-> k, stale_seen |-> stale_seen]
       /\ UNCHANGED <<now, remote, changes>>

\* time passes between two runs of the scheduler
Tick ==
    /\ \E d \in TickSteps : now + d <= MaxTime /\ now' = now + d
    /\ last' = NoCall
    /\ UNCHANGED <<wallpapers, last_fetched_at, current_wallpaper_id,
                   collection_size, page_size, page_index, page_entry_index,
                   wallpaper_index, remote, changes, k, stale_seen>>

\* the collections one edit away from c: one wallpaper removed, or one added
Edits(c) ==
    {SubSeq(c, 1, i - 1) \o SubSeq(c, i + 1, Len(c)) : i \in 1..Len(c)}
    \cup {SubSeq(c, 1, i) \o <<x>> \o SubSeq(c, i + 1, Len(c)) :
              i \in 0..Len(c), x \in IDs \ Range(c)}

\* the owner adds or removes a wallpaper, or changes the per_page of the account
RemoteChange ==
    /\ changes < MaxChanges
    /\ \/ \E c \in Edits(remote.coll) :
             Len(c) <= MaxN /\ remote' = [remote EXCEPT !.coll = c]
       \/ \E p \in (1..MaxP) \ {remote.per_page} :
             remote' = [remote EXCEPT !.per_page = p]
    /\ changes' = changes + 1
    /\ k' = -1
    /\ stale_seen' = FALSE
    /\ last' = NoCall
    /\ UNCHANGED <<wallpapers, last_fetched_at, current_wallpaper_id,
                   collection_size, page_size, page_index, page_entry_index,
                   wallpaper_index, now>>

Next ==
    \/ \E ok \in BOOLEAN, dl \in BOOLEAN : set_next(ok, dl)
    \/ Tick
    \/ RemoteChange

Spec == Init /\ [][Next]_vars

(***************************************************************************)
(* The same cursor over a remote that never changes and always answers.    *)
(***************************************************************************)
InitStatic == InitWith(StaticRemotes)

NextStatic ==
    \/ \E dl \in BOOLEAN : set_next(TRUE, dl)
    \/ Tick

SpecStatic == InitStatic /\ [][NextStatic]_vars

(***************************************************************************)
(* The same cursor against a remote that is never empty and always         *)
(* answers; it may still be edited MaxChanges times.                       *)
(***************************************************************************)
InitAnswered == InitWith({r \in Remotes : r.coll # <<>>})

RemoteChangeNonEmpty == RemoteChange /\ remote'.coll # <<>>

NextAnswered ==
    \/ \E dl \in BOOLEAN : set_next(TRUE, dl)
    \/ Tick
    \/ RemoteChangeNonEmpty

SpecAnswered == InitAnswered /\ [][NextAnswered]_vars

(***************************************************************************)
(* The same cursor against an account whose collection with the configured *)
(* label may be missing: from the start, or renamed, deleted or created    *)
(* later (MaxChanges times).  The wallpapers of the account do not change. *)
(***************************************************************************)
InitUnresolved ==
    InitWith({[r EXCEPT !.labelled = b] : r \in Remotes, b \in BOOLEAN})

\* the owner renames or deletes the collection, or gives one the label
LabelChange ==
    /\ changes < MaxChanges
    /\ remote' = [remote EXCEPT !.labelled = ~remote.labelled]
    /\ changes' = changes + 1
    /\ k' = -1
    /\ stale_seen' = FALSE
    /\ last' = NoCall
    /\ UNCHANGED <<wallpapers, last_fetched_at, current_wallpaper_id,
                   collection_size, page_size, page_index, page_entry_index,
                   wallpaper_index, now>>

NextUnresolved ==
    \/ \E ok \in BOOLEAN, dl \in BOOLEAN : set_next(ok, dl)
    \/ Tick
    \/ LabelChange

SpecUnresolved == InitUnresolved /\ [][NextUnresolved]_vars

(***************************************************************************)
(* Properties.  `last` describes the call of set_next that has just        *)
(* returned: last.pre is the cursor at entry, last.sel the cursor when the *)
(* candidate is selected (after __refetch), Cursor the cursor at exit.     *)
(***************************************************************************)
N == Len(remote.coll)

\* the ids of page p of the remote, as a set
PageIds(rem, p) ==
    {rem.coll[j] : j \in ((p - 1) * rem.per_page + 1)
                           ..Min(p * rem.per_page, Len(rem.coll))}

\* the id at position pos (from 0) of "page 1 ascending, page 2 ascending, ..."
ServingOrder(rem, pos) ==
    LET ids == PageIds(rem, (pos \div rem.per_page) + 1)
    IN CHOOSE x \in ids :
           Cardinality({y \in ids : StrLess(y, x)}) = pos % rem.per_page

\* C1 (wrap): over a static remote of N >= 1 wallpapers, with no staleness
\* refetch so far, the call that follows exactly N successful calls of a fresh
\* cursor takes the end-of-collection branch: it requests page 1, and at the
\* selection wallpaper_index is 0 (it was N), page_index 1, page_entry_index 0
\* and current_wallpaper_id the sentinel.
C1_Wrap ==
    (last.called /\ N >= 1 /\ last.k = N /\ ~last.stale_seen)
        => /\ last.pre.wallpaper_index = N
           /\ last.fetched = <<1>>
           /\ last.sel.wallpaper_index = 0
           /\ last.sel.page_index = 1
           /\ last.sel.page_entry_index = 0
           /\ last.sel.current_wallpaper_id = Sentinel

\* C1 witness: the call after N = 3 served wallpapers of a two-page collection
C1_Witness ==
    /\ last.called /\ N = 3 /\ remote.per_page = 2
    /\ last.k = N /\ ~last.stale_seen
    /\ last.pre.page_index = 2
    /\ last.outcome = "served"

\* C2 (serving order): over a static remote of N >= 1 wallpapers whose fetches
\* succeed, every call serves, and the k-th call serves the id at position
\* (k - 1) mod N of the sequence "page 1 in ascending id order, then page 2
\* in ascending id order, ..." (so the k-th successful call is the k-th call,
\* and every id is served once per cycle of N calls).
C2_ServingOrder ==
    (last.called /\ last.k >= 0 /\ N >= 1)
        => /\ last.outcome = "served"
           /\ last.item = ServingOrder(remote, last.k % N)

\* C2 witness: the first id served from page 2 is lower than the id served
\* last from page 1, in the second cycle
C2_Witness ==
    /\ last.called /\ last.k > N /\ last.outcome = "served"
    /\ last.sel.page_index = 2
    /\ last.sel.page_entry_index = 0
    /\ StrLess(last.item, last.pre.current_wallpaper_id)

(***************************************************************************)
(* The conditions of __refetch on the cursor at entry of the last call,    *)
(* written out from lines 192, 196 and 199.                                *)
(***************************************************************************)
EocAtEntry == last.pre.wallpaper_index > last.pre.collection_size - 1

EopAtEntry == last.pre.page_entry_index >= last.pre.page_size

Elapsed == now - last.pre.last_fetched_at

StaleAtEntry == Elapsed > fetch_freq

\* C3 (failure atomicity), as claimed: when the fetch of a call fails, no
\* wallpaper is served and the cursor is exactly what it was at entry.
C3_FailureAtomic ==
    (last.called /\ last.outcome = "fetch_error")
        => /\ last.item = NoItem
           /\ Cursor = last.pre

\* C4 (counter bounds), as claimed: right after every successful call
\* page_entry_index <= page_size and wallpaper_index <= collection_size,
\* whatever the remote answered.
C4_Bounds ==
    (last.called /\ last.outcome = "served")
        => /\ page_entry_index <= page_size
           /\ wallpaper_index <= collection_size

\* C4 amended: right after a successful call page_entry_index <= page_size
\* and wallpaper_index <= collection_size, provided the fetch of that call
\* (if any) reported a per_page and a total not smaller than the page_size
\* and collection_size the cursor held at entry.
C4_BoundsUnlessShrunk ==
    (/\ last.called /\ last.outcome = "served"
     /\ page_size >= last.pre.page_size
     /\ collection_size >= last.pre.collection_size)
        => /\ page_entry_index <= page_size
           /\ wallpaper_index <= collection_size

\* C4 witness: the remote has grown since the page was loaded; the staleness
\* refetch reports the larger total and the call serves
C4_Witness ==
    /\ last.called /\ last.outcome = "served"
    /\ ~EocAtEntry /\ ~EopAtEntry /\ last.fetched # <<>>
    /\ collection_size > last.pre.collection_size
    /\ page_size = last.pre.page_size

\* the loaded page and the sizes are those the remote holds now
InSync ==
    /\ Range(wallpapers) = PageIds(remote, page_index)
    /\ page_size = remote.per_page
    /\ collection_size = N

\* A state no call leaves while the remote stays as it is: the call made
\* now, and the call made once the cache has expired, both end without a
\* candidate and leave the cursor where it is (the refetch renews only
\* last_fetched_at, which no later decision depends on but through expiry).
Stuck ==
    LET expired == last_fetched_at + fetch_freq + 1
        soon == run_set_next(Cursor, remote, now, TRUE)
        later == run_set_next(Cursor, remote, expired, TRUE)
    IN /\ soon.outcome = "no_candidate"
       /\ soon.st = Cursor
       /\ later.outcome = "no_candidate"
       /\ later.fetched # <<>>
       /\ later.st = [Cursor EXCEPT !.last_fetched_at = expired]

\* C5 (no terminal state), as claimed: against a non-empty remote that always
\* answers, from every state the cursor reaches, also the one a call without
\* candidate leaves behind, continued calls serve a wallpaper again; so the
\* cursor is never in a state that no further call leaves.
C5_NoTerminalState ==
    (last.called /\ last.outcome = "no_candidate" /\ N >= 1 /\ InSync)
        => ~Stuck

\* C6 (one fetch per call): a call issues one fetch when end-of-collection,
\* end-of-page or staleness holds at entry and none otherwise, and only the
\* first of the three that holds acts: end-of-collection requests page 1
\* after its resets, else end-of-page requests the next page and leaves
\* wallpaper_index alone, else staleness requests the current page and
\* leaves the position alone.
C6_OneFetch ==
    last.called =>
        /\ Len(last.fetched) <= 1
        /\ (Len(last.fetched) = 1) <=> (EocAtEntry \/ EopAtEntry \/ StaleAtEntry)
        /\ EocAtEntry =>
              /\ last.fetched = <<1>>
              /\ last.sel.page_index = 1
              /\ last.sel.wallpaper_index = 0
        /\ (~EocAtEntry /\ EopAtEntry) =>
              /\ last.fetched = <<last.pre.page_index + 1>>
              /\ last.sel.page_index = last.pre.page_index + 1
              /\ last.sel.page_entry_index = 0
              /\ last.sel.wallpaper_index = last.pre.wallpaper_index
        /\ (~EocAtEntry /\ ~EopAtEntry /\ StaleAtEntry) =>
              /\ last.fetched = <<last.pre.page_index>>
              /\ last.sel.page_index = last.pre.page_index
              /\ last.sel.page_entry_index = last.pre.page_entry_index
              /\ last.sel.wallpaper_index = last.pre.wallpaper_index
              /\ last.sel.current_wallpaper_id = last.pre.current_wallpaper_id
        /\ (~EocAtEntry /\ ~EopAtEntry /\ ~StaleAtEntry) => last.sel = last.pre

\* C6 witness: all three conditions hold at entry and page 1 alone is fetched
C6_Witness ==
    /\ last.called
    /\ last.pre.wallpaper_index > 0
    /\ EocAtEntry /\ EopAtEntry /\ StaleAtEntry
    /\ last.fetched = <<1>>
    /\ last.outcome = "served"

\* C7 (staleness timing): when neither end-of-collection nor end-of-page
\* holds at entry, the call fetches iff now - last_fetched_at > fetch_freq;
\* the fetch is of the current page_index and, when it succeeds, sets
\* last_fetched_at to the time of the fetch; without a fetch last_fetched_at
\* stays.  With fetch_freq = 60: no fetch after 30 or 60, one after 70.
C7_StalenessTiming ==
    (last.called /\ ~EocAtEntry /\ ~EopAtEntry) =>
        /\ (last.fetched # <<>>) <=> (Elapsed > fetch_freq)
        /\ Elapsed \in {30, 60} => last.fetched = <<>>
        /\ Elapsed = 70 => last.fetched = <<last.pre.page_index>>
        /\ last.fetched # <<>> =>
              /\ last.fetched = <<last.pre.page_index>>
              /\ last.outcome # "fetch_error" => last_fetched_at = now
        /\ (last.fetched = <<>> \/ last.outcome = "fetch_error") =>
              last_fetched_at = last.pre.last_fetched_at

\* C7 witness: a call 70 after the last fetch, in the middle of a page,
\* refetches the current page
C7_Witness ==
    /\ last.called /\ ~EocAtEntry /\ ~EopAtEntry
    /\ last.pre.last_fetched_at > 0
    /\ Elapsed = 70
    /\ last.fetched = <<last.pre.page_index>>
    /\ last_fetched_at = now

\* C8 (staleness-refresh idempotence): when the staleness branch refetches
\* the current page and the remote answers with the same wallpapers,
\* per_page and total as the cursor holds, the call serves the same
\* wallpaper and leaves the same current_wallpaper_id, page_index,
\* page_entry_index and wallpaper_index as the same call made without the
\* refresh (made at the time of the last fetch, when nothing is stale).
C8_RefreshIdempotent ==
    LET resp == ClientWallpapers(remote, last.pre.page_index)
        other == run_set_next(last.pre, remote,
                              last.pre.last_fetched_at, TRUE)
    IN (/\ last.called /\ ~EocAtEntry /\ ~EopAtEntry /\ StaleAtEntry
        /\ last.outcome # "fetch_error"
        /\ Range(resp.data) = Range(last.pre.wallpapers)
        /\ Len(resp.data) = Len(last.pre.wallpapers)
        /\ resp.per_page = last.pre.page_size
        /\ resp.total = last.pre.collection_size)
           => /\ other.fetched = <<>>
              /\ last.outcome = other.outcome
              /\ last.item = other.item
              /\ current_wallpaper_id = other.st.current_wallpaper_id
              /\ page_index = other.st.page_index
              /\ page_entry_index = other.st.page_entry_index
              /\ wallpaper_index = other.st.wallpaper_index
              /\ wallpapers = other.st.wallpapers
              /\ last_fetched_at = now

\* C8 witness: an unchanged two-entry page is refreshed after its first entry
\* was served, and the second entry is served
C8_Witness ==
    /\ last.called /\ ~EocAtEntry /\ ~EopAtEntry /\ StaleAtEntry
    /\ last.pre.page_entry_index = 1
    /\ Len(last.pre.wallpapers) = 2
    /\ wallpapers = last.pre.wallpapers
    /\ page_size = last.pre.page_size
    /\ collection_size = last.pre.collection_size
    /\ last.outcome = "served"
    /\ last.item = wallpapers[2]

\* C9 (empty collection): when the remote is empty and the cursor holds
\* collection_size 0 (a fresh cursor, or one that was told total 0), a call
\* whose fetch is answered takes the end-of-collection branch, requests
\* page 1 once, and ends with the error of the missing candidate: nothing is
\* served, wallpaper_index and page_entry_index stay 0.
C9_EmptyCollection ==
    (/\ last.called /\ N = 0 /\ last.pre.collection_size = 0
     /\ last.outcome # "fetch_error")
        => /\ last.fetched = <<1>>
           /\ last.outcome = "no_candidate"
           /\ last.item = NoItem
           /\ page_index = 1
           /\ wallpaper_index = 0
           /\ page_entry_index = 0
           /\ collection_size = 0

\* C9 witness: a later call (not the first) against the empty remote
C9_Witness ==
    /\ last.called /\ N = 0 /\ changes = 0
    /\ last.pre.page_index = 1
    /\ last.pre.collection_size = 0
    /\ last.pre.last_fetched_at > 0
    /\ last.outcome = "no_candidate"

\* C10 (no silent substitution): a call either serves a wallpaper of the
\* loaded page, the lowest of those whose id is greater than the
\* current_wallpaper_id at selection, or ends with an error and serves
\* nothing; when the page holds no greater id the call ends with an error,
\* requests no further page and leaves the cursor as it was at selection.
C10_NoSubstitution ==
    LET greater == {w \in Range(last.sel.wallpapers) :
                       StrLess(last.sel.current_wallpaper_id, w)}
    IN last.called =>
        /\ last.outcome \in {"served", "fetch_error", "no_candidate"}
        /\ last.outcome = "served" =>
              /\ last.item \in greater
              /\ \A w \in greater : ~StrLess(w, last.item)
              /\ current_wallpaper_id = last.item
              /\ wallpapers = last.sel.wallpapers
        /\ last.outcome # "served" =>
              /\ last.item = NoItem
              /\ ~last.delivered
              /\ Cursor = last.sel
        /\ (greater = {} /\ last.outcome # "fetch_error") =>
              /\ last.outcome = "no_candidate"
              /\ Len(last.fetched) <= 1

\* C10 witness: a refreshed page that holds wallpapers, none of them above
\* the id served last
C10_Witness ==
    /\ last.called /\ last.outcome = "no_candidate"
    /\ wallpapers # <<>>
    /\ current_wallpaper_id # Sentinel
    /\ current_wallpaper_id = last.pre.current_wallpaper_id
    /\ page_entry_index = last.pre.page_entry_index
    /\ wallpaper_index = last.pre.wallpaper_index

\* C11 (sortedness): in every reachable state the loaded page is in ascending
\* id order, under the string order the selection uses, whatever order the
\* remote returned it in.
C11_Sorted ==
    \A i \in 1..Len(wallpapers) : \A j \in 1..Len(wallpapers) :
        i < j => StrLess(wallpapers[i], wallpapers[j])

\* C11 witness: the remote returned "2" before "10" and the page holds "10"
\* before "2"
C11_Witness ==
    /\ last.called /\ last.fetched # <<>> /\ last.outcome # "fetch_error"
    /\ ClientWallpapers(remote, page_index).data = << <<2>>, <<1, 0>> >>
    /\ wallpapers = << <<1, 0>>, <<2>> >>

\* C12 (unresolved collection): a fetch issued while no collection of the
\* account has the configured label fails before its page request is built,
\* and the call serves nothing; while the label has been missing since the
\* cursor was constructed, no page is loaded and no call serves a wallpaper.
C12_Unresolved ==
    /\ (last.called /\ ~remote.labelled) =>
           /\ last.paged = <<>>
           /\ last.fetched # <<>> =>
                  (last.outcome = "fetch_error" /\ last.item = NoItem
                   /\ ~last.delivered
                   /\ wallpapers = last.pre.wallpapers
                   /\ last_fetched_at = last.pre.last_fetched_at)
    /\ (~remote.labelled /\ changes = 0) =>
           /\ wallpapers = <<>>
           /\ last.called =>
                  (last.fetched # <<>> /\ last.outcome = "fetch_error")

\* C12 witness: the label is missing, the remote holds wallpapers and answers,
\* and a second call has again asked for page 1 and failed
C12_Witness ==
    /\ last.called /\ ~remote.labelled /\ changes = 0 /\ N >= 1
    /\ last.pre.page_index = 1
    /\ last.fetched = <<1>> /\ last.outcome = "fetch_error"

\* C13 (end of collection before end of page): a call entered with both
\* wallpaper_index > collection_size - 1 and page_entry_index >= page_size
\* sets page_index to 1 and fetches page 1, and nothing else: page_index is
\* not incremented.  So while the remote is unchanged and answers, no page
\* after the last one is requested.
C13_EocBeforeEop ==
    /\ (last.called /\ EocAtEntry /\ EopAtEntry) =>
           /\ last.fetched = <<1>>
           /\ last.sel.page_index = 1
           /\ page_index = 1
           /\ last.sel.wallpaper_index = 0
    /\ (last.called /\ last.k >= 0 /\ N >= 1) =>
           \A i \in 1..Len(last.fetched) :
               (last.fetched[i] - 1) * remote.per_page < N

\* C13 witness: two wallpapers in one page of two have been served; the call
\* is entered on the last page with both conditions true and fetches page 1
C13_Witness ==
    /\ last.called /\ EocAtEntry /\ EopAtEntry
    /\ last.pre.page_size = 2 /\ last.pre.collection_size = 2
    /\ last.pre.wallpaper_index = 2 /\ last.pre.page_entry_index = 2
    /\ last.pre.page_index = 1
    /\ last.fetched = <<1>> /\ last.outcome = "served"

\* C14 (frame of a fetch): a successful fetch changes only wallpapers,
\* page_size, collection_size and last_fetched_at.  In a call, the staleness
\* branch leaves current_wallpaper_id, page_index, page_entry_index and
\* wallpaper_index as they were at entry; the end-of-page branch leaves
\* wallpaper_index; page_entry_index changes only by the reset to 0 of the
\* end-of-collection and end-of-page branches and wallpaper_index only by the
\* reset to 0 of the end-of-collection branch, and both by the +1 of a commit.
\* Without a successful fetch the four fetched fields stay as they were.
C14_FetchFrame ==
    LET f == fetch_ok(Cursor, remote, now)
    IN /\ f.current_wallpaper_id = current_wallpaper_id
       /\ f.page_index = page_index
       /\ f.page_entry_index = page_entry_index
       /\ f.wallpaper_index = wallpaper_index
       /\ last.called =>
            /\ (~EocAtEntry /\ ~EopAtEntry) =>
                   /\ last.sel.current_wallpaper_id
                          = last.pre.current_wallpaper_id
                   /\ last.sel.page_index = last.pre.page_index
                   /\ last.sel.page_entry_index = last.pre.page_entry_index
                   /\ last.sel.wallpaper_index = last.pre.wallpaper_index
            /\ (~EocAtEntry /\ EopAtEntry) =>
                   /\ last.sel.wallpaper_index = last.pre.wallpaper_index
                   /\ last.sel.page_entry_index = 0
            /\ EocAtEntry =>
                   /\ last.sel.wallpaper_index = 0
                   /\ last.sel.page_entry_index = 0
            /\ IF last.outcome = "served"
               THEN /\ page_entry_index = last.sel.page_entry_index + 1
                    /\ wallpaper_index = last.sel.wallpaper_index + 1
               ELSE /\ page_entry_index = last.sel.page_entry_index
                    /\ wallpaper_index = last.sel.wallpaper_index
            /\ page_index = last.sel.page_index
            /\ (last.fetched = <<>> \/ last.outcome = "fetch_error") =>
                   /\ wallpapers = last.pre.wallpapers
                   /\ page_size = last.pre.page_size
                   /\ collection_size = last.pre.collection_size
                   /\ last_fetched_at = last.pre.last_fetched_at

\* C14 witness: a staleness refetch in the middle of a page succeeds; the
\* position in the page is kept through it and the commit adds one
C14_Witness ==
    /\ last.called /\ ~EocAtEntry /\ ~EopAtEntry /\ StaleAtEntry
    /\ last.fetched # <<>> /\ last.outcome = "served"
    /\ last.pre.page_entry_index = 1 /\ last.sel.page_entry_index = 1
    /\ page_entry_index = 2
    /\ last_fetched_at # last.pre.last_fetched_at

\* C15 (no fetch of page 0): every fetch is issued for a page >= 1.  The
\* cursor has page_index 0 only until its first call; that call takes the
\* end-of-collection branch (although the page is also stale) and asks for
\* page 1, and so does every later call, also after failed fetches.
C15_PageAtLeastOne ==
    /\ page_index = 0 => Cursor = InitCursor
    /\ last.called =>
          /\ \A i \in 1..Len(last.fetched) : last.fetched[i] >= 1
          /\ last.pre.page_index = 0 =>
                 /\ last.pre = InitCursor
                 /\ EocAtEntry /\ StaleAtEntry
                 /\ last.fetched = <<1>>
                 /\ last.sel.page_index = 1

\* C15 witness: the first call failed (nothing was ever fetched), and the
\* call after it asks for page 1 again and serves
C15_Witness ==
    /\ last.called /\ last.pre.last_fetched_at = 0
    /\ last.pre.page_index = 1 /\ last.pre.wallpapers = <<>>
    /\ last.fetched = <<1>> /\ last.outcome = "served"

\* the positions (from 0) of a cycle of n calls that are the first of a page
\* of p entries
FirstOfPage(n, p) == {pos \in 0..(n - 1) : pos % p = 0}

\* C16 (no redundant fetch in a cycle): over an unchanged remote of N >= 1
\* wallpapers in pages of P that always answers, a call that is not a
\* staleness refetch and follows k successful calls fetches exactly when
\* k mod N is the first position of a page, and then that page only,
\* (k mod N) div P + 1; any other call fetches nothing.  The first positions
\* of a cycle are ceil(N/P) in number and their pages are 1..ceil(N/P) in
\* order, so a cycle of N calls issues ceil(N/P) fetches, each page once.
C16_NoRedundantFetch ==
    LET P == remote.per_page
        pos == last.k % N
        pages == (N + P - 1) \div P
    IN (last.called /\ last.k >= 0 /\ N >= 1
        /\ ~(~EocAtEntry /\ ~EopAtEntry /\ StaleAtEntry)) =>
           /\ last.fetched = IF pos \in FirstOfPage(N, P)
                             THEN <<(pos \div P) + 1>> ELSE <<>>
           /\ Cardinality(FirstOfPage(N, P)) = pages
           /\ {(q \div P) + 1 : q \in FirstOfPage(N, P)} = 1..pages
           /\ \A q1 \in FirstOfPage(N, P) : \A q2 \in FirstOfPage(N, P) :
                  q1 < q2 => (q1 \div P) + 1 < (q2 \div P) + 1

\* C16 witness: three wallpapers in pages of two; in the second cycle the
\* call after the two of page 1 fetches page 2, with no staleness refetch in
\* the run
C16_Witness ==
    /\ last.called /\ last.k = 5 /\ N = 3 /\ remote.per_page = 2
    /\ ~last.stale_seen /\ ~stale_seen
    /\ last.fetched = <<2>> /\ last.outcome = "served"

\* C17 (commit before delivery): when a wallpaper is served and its download
\* or set-wallpaper step fails, the cursor at exit is the committed one:
\* current_wallpaper_id is the served id and both indices are one higher.
\* The call that follows starts from that cursor: over an unchanged,
\* answering remote it serves the wallpaper at the following position, and
\* within the same cycle not the one whose delivery failed.
C17_CommitBeforeDelivery ==
    [][last'.called =>
         /\ (last'.outcome = "served" /\ ~last'.delivered) =>
                /\ current_wallpaper_id' = last'.item
                /\ page_entry_index' = last'.sel.page_entry_index + 1
                /\ wallpaper_index' = last'.sel.wallpaper_index + 1
         /\ (last.called /\ last.outcome = "served" /\ ~last.delivered) =>
                /\ last'.pre.current_wallpaper_id = last.item
                /\ last'.pre.wallpaper_index = last.sel.wallpaper_index + 1
                /\ (k >= 0 /\ N >= 1) =>
                       /\ last'.outcome = "served"
                       /\ last'.item = ServingOrder(remote, k % N)
                       /\ k % N # 0 => last'.item # last.item
    ]_vars

\* C17 witness: in the middle of a cycle a wallpaper is served, its delivery
\* fails, and the cursor has advanced to it
C17_Witness ==
    /\ last.called /\ last.outcome = "served" /\ ~last.delivered
    /\ last.k >= 1 /\ N = 3 /\ (last.k + 1) % N # 0
    /\ current_wallpaper_id = last.item
    /\ wallpaper_index = last.pre.wallpaper_index + 1

====
